---- MODULE Spec2Model ----
(***************************************************************************)
(* A model of package handlertest (src/handlertest.go): RunFromYAML,       *)
(* runFromYAML, Run, httpRequest and assertResponse, driven against the    *)
(* handlers and the reporters (testing.T, and the mock of                  *)
(* src/handlertest_test.go) the repository uses.                           *)
(*                                                                         *)
(* Strings the code only compares (names, bodies, methods) are TLA+        *)
(* strings.  Strings the code takes apart (header lines, request targets)  *)
(* are sequences of one-character strings, so that strings.SplitN and the  *)
(* request-line parse are computed, not assumed.                           *)
(***************************************************************************)
EXTENDS Naturals, Sequences, FiniteSets

VARIABLES
    pc,      \* position of the single goroutine executing the package's code
    rk,      \* kind of the reporter t passed in: "T" (*testing.T) or "mock"
    h,       \* the http.Handler passed in
    tcs,     \* the []TestCase Run iterates over
    i,       \* index (1-based) of the loop variable tc in Run
    cur,     \* the reporter f was called with: 0 is the parent, c the sub-test of case c
    rec,     \* the httptest.ResponseRecorder of the case being executed
    nrec,    \* number of recorders allocated so far
    req,     \* the *http.Request built for the case being executed
    calls,   \* calls made on reporters, in order
    trace    \* steps of f executed, in order

vars == <<pc, rk, h, tcs, i, cur, rec, nrec, req, calls, trace>>

\* Longest sequence of test cases passed to Run.
MaxCases == 2

StatusOK == 200
StatusBadRequest == 400
StatusInternalServerError == 500

(***************************************************************************)
(* Strings as character sequences.                                         *)
(***************************************************************************)
HeaderSep == <<":", " ">>

\* strings.Index(s, sep) + 1, or 0 when sep does not occur in s.
Index(s, sep) ==
    LET hits == {k \in 1..Len(s) : /\ k + Len(sep) - 1 <= Len(s)
                                   /\ SubSeq(s, k, k + Len(sep) - 1) = sep}
    IN IF hits = {} THEN 0 ELSE CHOOSE k \in hits : \A m \in hits : k <= m

\* strings.SplitN(s, sep, 2)
SplitN2(s, sep) ==
    LET k == Index(s, sep)
    IN IF k = 0 THEN <<s>>
       ELSE <<SubSeq(s, 1, k - 1), SubSeq(s, k + Len(sep), Len(s))>>

\* http.Header.Set: replaces whatever was stored under the key.
HeaderSet(hdr, k, v) == {p \in hdr : p[1] # k} \cup {<<k, v>>}

\* The header values the model draws from.
HdrKV == <<"K", ":", " ", "v">>
HdrKAB == <<"K", ":", " ", "a", ":", " ", "b">>
HdrNoSpace == <<"K", ":", "v">>
HdrNoColon == <<"K", "=", "v">>

\* The request targets the model draws from.
URLEmpty == <<>>
URLPath == <<"/", "f", "o", "o">>
URLAbs == <<"h", ":", "/", "/", "x">>
URLSpace == <<"/", "a", " ", "b">>

(***************************************************************************)
(* The test cases, handlers and reporters the model draws from.            *)
(***************************************************************************)
Names == {"", "ok", "bad"}

\* Request{}: every field at its zero value.
ReqDefault == [Method |-> "", URL |-> URLEmpty, Body |-> "", Headers |-> <<>>]
\* Only the URL set.
ReqURLOnly == [Method |-> "", URL |-> URLPath, Body |-> "", Headers |-> <<>>]
ReqPost == [Method |-> "POST", URL |-> URLAbs, Body |-> "Hello world!",
            Headers |-> <<HdrKV, HdrKAB>>]
\* The second header has no ": " separator.
ReqBadHeader == [Method |-> "GET", URL |-> URLPath, Body |-> "",
                 Headers |-> <<HdrKV, HdrNoSpace>>]
\* The target does not parse, and the header has no separator either.
ReqBadURL == [Method |-> "GET", URL |-> URLSpace, Body |-> "",
              Headers |-> <<HdrNoColon>>]

Requests == {ReqDefault, ReqURLOnly, ReqPost, ReqBadHeader, ReqBadURL}

\* Response{}: every field at its zero value.
ResDefault == [Code |-> 0, Body |-> ""]
ResBad == [Code |-> StatusBadRequest, Body |-> "Bad"]

Responses == {ResDefault, ResBad}

Cases == [Name : Names, Request : Requests, Response : Responses]

CaseSeqs == UNION {[1..n -> Cases] : n \in 0..MaxCases}

\* emptyHandler writes nothing; badHandler is the handler of TestRun
\* (WriteHeader(400), Write("Bad")); hiHandler only writes a body.
Handlers == {"emptyHandler", "badHandler", "hiHandler"}

ReporterKinds == {"T", "mock"}

NoRec == [id |-> 0, Code |-> 0, Body |-> "", wroteHeader |-> FALSE]
NoReq == [Method |-> "", URL |-> <<>>, Body |-> "", Header |-> {}]

\* A call on a reporter: op is "Run", "Errorf" or "Fatalf"; on is the
\* reporter called; case is the test case being processed (0: none); arg is
\* the sub-test name of a Run, or what an Errorf is about ("code", "body").
Call(op, on, case, arg) == [op |-> op, on |-> on, case |-> case, arg |-> arg]

\* A step of f: "NewRecorder", "httpRequest", "ServeHTTP" or "assertResponse".
Step(step, case, r) == [step |-> step, case |-> case, rec |-> r]

(***************************************************************************)
(* httptest.ResponseRecorder and the handlers.                             *)
(***************************************************************************)
\* httptest.NewRecorder()
NewRec(id) == [id |-> id, Code |-> StatusOK, Body |-> "", wroteHeader |-> FALSE]

\* ResponseRecorder.WriteHeader: only the first call sets the code.
WriteHeader(r, code) ==
    IF r.wroteHeader THEN r ELSE [r EXCEPT !.Code = code, !.wroteHeader = TRUE]

\* ResponseRecorder.Write: an implicit WriteHeader(200), then the bytes are appended.
Write(r, data) ==
    LET w == WriteHeader(r, StatusOK) IN [w EXCEPT !.Body = w.Body \o data]

\* h.ServeHTTP(rec, req)
Serve(hd, r, rq) ==
    CASE hd = "emptyHandler" -> r
      [] hd = "badHandler" -> Write(WriteHeader(r, StatusBadRequest), "Bad")
      [] hd = "hiHandler" -> Write(r, "hi")

(***************************************************************************)
(* httpRequest (src/handlertest.go:108-123).                               *)
(***************************************************************************)
\* A NewRequest that accepts every target.
NewRequestNeverFails(method, target) == FALSE

\* httptest.NewRequest(method, target, body) panics when the request line
\* "method target HTTP/1.0" cannot be read back: an empty target, a target
\* with a space in it, or a target that is neither a path nor an absolute
\* URL.
NewRequestErr(method, target) ==
    \/ target = <<>>
    \/ Index(target, <<" ">>) # 0
    \/ /\ target[1] # "/"
       /\ Index(target, <<":", "/", "/">>) <= 1

\* httptest.NewRequest: an empty method means GET.
NewRequestMethod(method) == IF method = "" THEN "GET" ELSE method

\* A header loop that skips a header without the separator.
RECURSIVE SetHeadersSkipping(_, _)
SetHeadersSkipping(hs, hdr) ==
    IF hs = <<>> THEN [ok |-> TRUE, Header |-> hdr]
    ELSE LET split == SplitN2(Head(hs), HeaderSep)
         IN IF Len(split) # 2
            THEN SetHeadersSkipping(Tail(hs), hdr)
            ELSE SetHeadersSkipping(Tail(hs), HeaderSet(hdr, split[1], split[2]))

\* The loop over req.Headers: ok is FALSE when it reached os.Exit(1).
RECURSIVE SetHeaders(_, _)
SetHeaders(hs, hdr) ==
    IF hs = <<>> THEN [ok |-> TRUE, Header |-> hdr]
    ELSE LET split == SplitN2(Head(hs), HeaderSep)
         IN IF Len(split) # 2
            THEN [ok |-> FALSE, Header |-> hdr]
            ELSE SetHeaders(Tail(hs), HeaderSet(hdr, split[1], split[2]))

(***************************************************************************)
(* assertResponse (src/handlertest.go:125-136).                            *)
(***************************************************************************)
\* reflect.ValueOf(i).IsZero() of an int.
isZeroInt(v) == v = 0

\* reflect.ValueOf(i).IsZero() of a string.
isZeroString(v) == v = ""

\* An expected code used as it stands, without the default.
expCodeVerbatim(res) == res.Code

\* expCode after lines 126-129: the zero value stands for http.StatusOK.
expCode(res) == IF isZeroInt(res.Code) THEN StatusOK ELSE res.Code

\* The condition of line 130.
codeMismatch(r, res) == r.Code # expCode(res)

\* A body comparison that does not look at whether a body is expected.
bodyMismatchAlways(r, res) == r.Body # res.Body

\* The condition of line 133.
bodyMismatch(r, res) == ~isZeroString(res.Body) /\ r.Body # res.Body

\* Reports that stop at the first mismatch.
ReportsFirstOnly(t, c, r, res) ==
    IF codeMismatch(r, res) THEN <<Call("Errorf", t, c, "code")>>
    ELSE IF bodyMismatch(r, res) THEN <<Call("Errorf", t, c, "body")>>
    ELSE <<>>

\* The Errorf calls assertResponse makes on reporter t for case c, in order.
Reports(t, c, r, res) ==
    (IF codeMismatch(r, res) THEN <<Call("Errorf", t, c, "code")>> ELSE <<>>)
    \o (IF bodyMismatch(r, res) THEN <<Call("Errorf", t, c, "body")>> ELSE <<>>)

(***************************************************************************)
(* State machine.                                                          *)
(***************************************************************************)
\* Before the test function calls into the package.
Init ==
    /\ pc = "idle"
    /\ rk \in ReporterKinds
    /\ h \in Handlers
    /\ tcs = <<>>
    /\ i = 0
    /\ cur = 0
    /\ rec = NoRec
    /\ nrec = 0
    /\ req = NoReq
    /\ calls = <<>>
    /\ trace = <<>>

\* t.Fatalf: (*testing.T).Fatalf ends the goroutine (runtime.Goexit), the
\* mock's Fatalf only sets fataled and returns, and the code returns.
AfterFatalf == IF rk = "T" THEN "aborted" ELSE "done"

\* The test function calls Run(t, h, cases...).
CallRun ==
    /\ pc = "idle"
    /\ \E cases \in CaseSeqs : tcs' = cases
    /\ i' = 1
    /\ pc' = "loop"
    /\ UNCHANGED <<rk, h, cur, rec, nrec, req, calls, trace>>

\* The test function calls RunFromYAML(t, h, path).
CallRunFromYAML ==
    /\ pc = "idle"
    /\ pc' = "open"
    /\ UNCHANGED <<rk, h, tcs, i, cur, rec, nrec, req, calls, trace>>

\* os.Open fails, Fatalf is called, and execution goes on to ReadAll.
OpenNoReturn ==
    /\ pc = "open"
    /\ \E ok \in BOOLEAN :
         IF ok THEN calls' = calls
         ELSE calls' = Append(calls, Call("Fatalf", 0, 0, "os: Open"))
    /\ pc' = IF rk = "T" /\ calls' # calls THEN "aborted" ELSE "read"
    /\ UNCHANGED <<rk, h, tcs, i, cur, rec, nrec, req, trace>>

\* RunFromYAML, lines 59-68: os.Open(path) succeeds or fails.
Open ==
    /\ pc = "open"
    /\ \E ok \in BOOLEAN :
         IF ok
         THEN /\ pc' = "read"
              /\ calls' = calls
         ELSE /\ calls' = Append(calls, Call("Fatalf", 0, 0, "os: Open"))
              /\ pc' = AfterFatalf
    /\ UNCHANGED <<rk, h, tcs, i, cur, rec, nrec, req, trace>>

\* runFromYAML, lines 72-76: ioutil.ReadAll(r) succeeds or fails.
ReadAll ==
    /\ pc = "read"
    /\ \E ok \in BOOLEAN :
         IF ok
         THEN /\ pc' = "parse"
              /\ calls' = calls
         ELSE /\ calls' = Append(calls, Call("Fatalf", 0, 0, "io/ioutil: ReadAll"))
              /\ pc' = AfterFatalf
    /\ UNCHANGED <<rk, h, tcs, i, cur, rec, nrec, req, trace>>

\* runFromYAML, lines 78-84: yaml.Unmarshal fails, or yields the cases Run
\* is then called with.
Unmarshal ==
    /\ pc = "parse"
    /\ \/ /\ calls' = Append(calls, Call("Fatalf", 0, 0, "yaml: Unmarshal"))
          /\ pc' = AfterFatalf
          /\ UNCHANGED <<tcs, i>>
       \/ /\ \E cases \in CaseSeqs : tcs' = cases
          /\ i' = 1
          /\ pc' = "loop"
          /\ calls' = calls
    /\ UNCHANGED <<rk, h, cur, rec, nrec, req, trace>>

\* A loop that registers a sub-test for every case.
registersAlways(tc) == TRUE

\* Line 98: a case is run as a sub-test when its Name is set.
registers(tc) == tc.Name # ""

\* The sub-test's function reports on the reporter Run was called with.
parentReporter(c) == 0

\* Lines 99-101: the reporter f gets is the sub-test's own *testing.T,
\* a new one for each t.Run.
subReporter(c) == c

\* Run, lines 90 and 98-104: the loop condition, and the call of f, through
\* t.Run for a named case.  (*testing.T).Run runs the function it is given
\* and waits for it; the mock's runFunc keeps the name and returns true.
LoopHead ==
    /\ pc = "loop"
    /\ IF i > Len(tcs)
       THEN /\ pc' = "done"
            /\ UNCHANGED <<i, cur, calls>>
       ELSE IF registers(tcs[i])
       THEN /\ calls' = Append(calls, Call("Run", 0, i, tcs[i].Name))
            /\ IF rk = "T"
               THEN /\ cur' = subReporter(i)
                    /\ pc' = "newrec"
                    /\ i' = i
               ELSE /\ cur' = cur
                    /\ pc' = "loop"
                    /\ i' = i + 1
       ELSE /\ cur' = 0
            /\ pc' = "newrec"
            /\ UNCHANGED <<i, calls>>
    /\ UNCHANGED <<rk, h, tcs, rec, nrec, req, trace>>

\* Line 92: rec := httptest.NewRecorder()
NewRecorder ==
    /\ pc = "newrec"
    /\ nrec' = nrec + 1
    /\ rec' = NewRec(nrec + 1)
    /\ trace' = Append(trace, Step("NewRecorder", i, nrec + 1))
    /\ pc' = "build"
    /\ UNCHANGED <<rk, h, tcs, i, cur, req, calls>>

\* Line 93: req := httpRequest(&tc.Request).  httptest.NewRequest panics
\* on a request it cannot build; a header without the separator ends the
\* process.
HttpRequest ==
    /\ pc = "build"
    /\ LET r == tcs[i].Request
           hd == SetHeaders(r.Headers, {})
       IN IF NewRequestErr(r.Method, r.URL)
          THEN /\ pc' = "panicked"
               /\ UNCHANGED <<req, trace>>
          ELSE IF ~hd.ok
          THEN /\ pc' = "exited"
               /\ UNCHANGED <<req, trace>>
          ELSE /\ req' = [Method |-> NewRequestMethod(r.Method), URL |-> r.URL,
                          Body |-> r.Body, Header |-> hd.Header]
               /\ trace' = Append(trace, Step("httpRequest", i, rec.id))
               /\ pc' = "serve"
    /\ UNCHANGED <<rk, h, tcs, i, cur, rec, nrec, calls>>

\* Line 94: h.ServeHTTP(rec, req)
ServeHTTP ==
    /\ pc = "serve"
    /\ rec' = Serve(h, rec, req)
    /\ trace' = Append(trace, Step("ServeHTTP", i, rec.id))
    /\ pc' = "assert"
    /\ UNCHANGED <<rk, h, tcs, i, cur, nrec, req, calls>>

\* Line 95: assertResponse(t, rec, &tc.Response)
AssertResponse ==
    /\ pc = "assert"
    /\ calls' = calls \o Reports(cur, i, rec, tcs[i].Response)
    /\ trace' = Append(trace, Step("assertResponse", i, rec.id))
    /\ pc' = "ret"
    /\ UNCHANGED <<rk, h, tcs, i, cur, rec, nrec, req>>

\* Errorf calls made for case c.
ErrorsOf(c) == {k \in 1..Len(calls) : calls[k].op = "Errorf" /\ calls[k].case = c}

\* A loop that ends at the first case that reported a mismatch.
ReturnStopOnFailure ==
    /\ pc = "ret"
    /\ IF ErrorsOf(i) # {}
       THEN /\ pc' = "done"
            /\ i' = Len(tcs) + 1
       ELSE /\ pc' = "loop"
            /\ i' = i + 1
    /\ UNCHANGED <<rk, h, tcs, cur, rec, nrec, req, calls, trace>>

\* f returns (and with it t.Run, for a named case): the next iteration.
Return ==
    /\ pc = "ret"
    /\ i' = i + 1
    /\ pc' = "loop"
    /\ UNCHANGED <<rk, h, tcs, cur, rec, nrec, req, calls, trace>>

Next ==
    \/ CallRun
    \/ CallRunFromYAML
    \/ Open
    \/ ReadAll
    \/ Unmarshal
    \/ LoopHead
    \/ NewRecorder
    \/ HttpRequest
    \/ ServeHTTP
    \/ AssertResponse
    \/ Return

Spec == Init /\ [][Next]_vars

(***************************************************************************)
(* assertResponse on its own, called as TestAssertResponse calls it: with  *)
(* a recorder holding any code and body, and any expected response.        *)
(***************************************************************************)
AssertCodes == {StatusOK, 201, StatusBadRequest, StatusInternalServerError}
AssertBodies == {"", "Bad", "Hello world!"}
AssertExpCodes == {0} \cup AssertCodes
AssertExpBodies == {"", "Bad", "Not hello world"}

InitAssert ==
    /\ pc = "assert"
    /\ rk \in ReporterKinds
    /\ h = "emptyHandler"
    /\ \E c \in AssertExpCodes, b \in AssertExpBodies :
         tcs = <<[Name |-> "", Request |-> ReqURLOnly,
                  Response |-> [Code |-> c, Body |-> b]]>>
    /\ i = 1
    /\ cur = 0
    /\ \E c \in AssertCodes, b \in AssertBodies :
         rec = [id |-> 1, Code |-> c, Body |-> b, wroteHeader |-> TRUE]
    /\ nrec = 1
    /\ req = NoReq
    /\ calls = <<>>
    /\ trace = <<>>

NextAssert == AssertResponse

SpecAssert == InitAssert /\ [][NextAssert]_vars

(***************************************************************************)
(* Vocabulary of the properties.                                           *)
(***************************************************************************)
\* The goroutine is inside f for case i, or ended there.
InCase == pc \in {"newrec", "build", "serve", "assert", "ret", "panicked", "exited"}

\* Number of cases the loop of Run has reached.
Begun == IF InCase THEN i ELSE IF i = 0 THEN 0 ELSE i - 1

\* Run has returned to its caller.
Returned == pc = "done" /\ i > 0

Indexes(k) == [c \in 1..k |-> c]

IsNamed(c) == tcs[c].Name # ""

\* The reporter runs the function of a sub-test it is asked to run.
RunsBody(c) == ~IsNamed(c) \/ rk = "T"

RunCalls == SelectSeq(calls, LAMBDA e : e.op = "Run")

StepsOf(c, step) == {p \in 1..Len(trace) : trace[p].case = c /\ trace[p].step = step}

ReportsOf(c, arg) ==
    {k \in 1..Len(calls) : /\ calls[k].op = "Errorf"
                           /\ calls[k].case = c
                           /\ calls[k].arg = arg}

\* Errorf or Fatalf calls made while case c was processed.
FailuresOf(c) ==
    {k \in 1..Len(calls) : calls[k].op \in {"Errorf", "Fatalf"} /\ calls[k].case = c}

\* The build of case c's request was started and is over.
BuildOver(c) == StepsOf(c, "NewRecorder") # {} /\ ~(i = c /\ pc \in {"build"})

StepNames == <<"NewRecorder", "httpRequest", "ServeHTTP", "assertResponse">>

(***************************************************************************)
(* C1.  At every point of Run, the t.Run calls made so far are, in order,  *)
(* one call on the parent reporter for each named case the loop has        *)
(* reached, with that case's Name as the sub-test name, and none for an    *)
(* unnamed case; when Run returns the loop has reached every case, so the  *)
(* sub-tests registered are exactly the named cases.                       *)
(***************************************************************************)
C1_SubtestPerNamedCase ==
    LET named == SelectSeq(Indexes(Begun), IsNamed)
    IN /\ Len(RunCalls) = Len(named)
       /\ \A k \in 1..Len(named) :
            RunCalls[k] = Call("Run", 0, named[k], tcs[named[k]].Name)
       /\ Returned => Begun = Len(tcs)

C1_Witness ==
    /\ Returned
    /\ Len(tcs) = 2
    /\ tcs[1].Name = ""
    /\ tcs[2].Name = "ok"
    /\ Len(RunCalls) = 1
    /\ RunCalls[1].arg = "ok"

C3_BodyCheckedIndependently ==
    pc = "ret" =>
        LET res == tcs[i].Response
            codeOff == rec.Code # (IF res.Code = 0 THEN 200 ELSE res.Code)
            bodyOff == res.Body # "" /\ rec.Body # res.Body
        IN /\ (ReportsOf(i, "body") # {}) <=> bodyOff
           /\ Cardinality(ReportsOf(i, "body")) <= 1
           /\ (codeOff /\ bodyOff) => Cardinality(FailuresOf(i)) = 2
           /\ res.Body = "" => ReportsOf(i, "body") = {}

C3_Witness ==
    /\ pc = "ret"
    /\ rec.Code # tcs[i].Response.Code
    /\ tcs[i].Response.Code # 0
    /\ tcs[i].Response.Body # ""
    /\ rec.Body # tcs[i].Response.Body
    /\ Len(calls) = 2
    /\ calls[1].arg = "code"
    /\ calls[2].arg = "body"

(***************************************************************************)
(* C4.  An absent field of the expected Response is never asserted: with   *)
(* Response.Code 0 no code mismatch is reported, whatever the recorded     *)
(* code, and with Response.Body empty no body mismatch is reported.        *)
(***************************************************************************)
C4_AbsentFieldNeverAsserted ==
    pc = "ret" =>
        /\ tcs[i].Response.Code = 0 => ReportsOf(i, "code") = {}
        /\ tcs[i].Response.Body = "" => ReportsOf(i, "body") = {}

(***************************************************************************)
(* C5.  Every Errorf is made on the reporter of the case it is about: the  *)
(* sub-test's own reporter for a named case, never the parent's or another *)
(* case's, and the reporter Run was called with for an unnamed case.  A    *)
(* matching case "ok" and a mismatching case "bad" run together against    *)
(* the 400/"Bad" handler leave exactly one failed sub-test, that of "bad". *)
(***************************************************************************)
CaseOK == [Name |-> "ok", Request |-> ReqURLOnly, Response |-> ResBad]
CaseBad == [Name |-> "bad", Request |-> ReqURLOnly, Response |-> ResDefault]

FailedReporters == {calls[k].on : k \in {m \in 1..Len(calls) : calls[m].op = "Errorf"}}

C5_MismatchAttributedToItsCase ==
    /\ \A k \in 1..Len(calls) :
         calls[k].op = "Errorf" =>
            /\ calls[k].case \in 1..Len(tcs)
            /\ calls[k].on = IF tcs[calls[k].case].Name # "" THEN calls[k].case ELSE 0
    /\ (Returned /\ rk = "T" /\ h = "badHandler" /\ tcs = <<CaseOK, CaseBad>>)
          => FailedReporters = {2}

C5_Witness ==
    /\ Returned
    /\ rk = "T"
    /\ h = "badHandler"
    /\ tcs = <<CaseOK, CaseBad>>
    /\ FailedReporters = {2}
    /\ Len(calls) = 3

(***************************************************************************)
(* C6.  The steps of f are executed case by case in input order: the trace *)
(* is, for the cases whose function is run, in order, NewRecorder then     *)
(* httpRequest then ServeHTTP then assertResponse, all with the recorder   *)
(* allocated for that case, which no other case uses; all four steps of a  *)
(* case are over before the next begins; the recorder the handler is given *)
(* is new (code 200, nothing written); and when Run returns every such     *)
(* case has been executed in full, whatever earlier cases reported.        *)
(***************************************************************************)
C6_CasesInOrderOneAtATime ==
    LET ex == SelectSeq(Indexes(Begun), RunsBody)
        open == IF InCase THEN 1 ELSE 0
    IN /\ Len(trace) <= 4 * Len(ex)
       /\ \A p \in 1..Len(trace) :
            trace[p] = Step(StepNames[((p - 1) % 4) + 1],
                            ex[((p - 1) \div 4) + 1],
                            ((p - 1) \div 4) + 1)
       /\ Len(ex) >= open => Len(trace) >= 4 * (Len(ex) - open)
       /\ pc \in {"build", "serve"} =>
             rec = [id |-> nrec, Code |-> 200, Body |-> "", wroteHeader |-> FALSE]
       /\ nrec = Cardinality({trace[p].rec : p \in 1..Len(trace)})
       /\ Returned => /\ Begun = Len(tcs)
                      /\ Len(trace) = 4 * Len(ex)

C6_Witness ==
    /\ Returned
    /\ Len(tcs) = 2
    /\ ReportsOf(1, "code") # {}
    /\ ReportsOf(1, "body") # {}
    /\ Len(trace) = 8
    /\ trace[7] = Step("ServeHTTP", 2, 2)

(***************************************************************************)
(* C7.  When loading the suite fails (Open, ReadAll or Unmarshal), exactly *)
(* one Fatalf is made, on the reporter RunFromYAML was called with, and    *)
(* nothing else happens: no case is loaded or executed, no recorder is     *)
(* allocated, no sub-test is registered and no Errorf is made, also with   *)
(* the mock reporter, whose Fatalf returns.                                *)
(***************************************************************************)
LoadFailed == \E k \in 1..Len(calls) : calls[k].op = "Fatalf"

C7_LoadFailureRunsNothing ==
    LoadFailed =>
        /\ calls \in {<<Call("Fatalf", 0, 0, m)>> :
                         m \in {"os: Open", "io/ioutil: ReadAll", "yaml: Unmarshal"}}
        /\ trace = <<>>
        /\ tcs = <<>>
        /\ nrec = 0
        /\ pc = IF rk = "T" THEN "aborted" ELSE "done"

C7_Witness ==
    /\ rk = "mock"
    /\ pc = "done"
    /\ calls = <<Call("Fatalf", 0, 0, "os: Open")>>
    /\ trace = <<>>

(***************************************************************************)
(* C8 as stated.  A case with every field at its zero value, run against a *)
(* handler that answers 200 with a non-empty body, passes: Run returns,    *)
(* and nothing is reported.                                                *)
(***************************************************************************)
CaseDefault == [Name |-> "", Request |-> ReqDefault, Response |-> ResDefault]
CaseURLOnly == [Name |-> "", Request |-> ReqURLOnly, Response |-> ResDefault]

Ended == pc \in {"done", "aborted", "panicked", "exited"}

C8_DefaultCasePasses ==
    (tcs = <<CaseDefault>> /\ h = "hiHandler" /\ Ended) => (pc = "done" /\ calls = <<>>)

(***************************************************************************)
(* C8, amended.  A case with every field at its zero value except a        *)
(* Request.URL that is a valid request target, run against a handler that  *)
(* answers 200 with a non-empty body, passes: nothing is ever reported, and*)
(* the run ends with Run returning.                                        *)
(***************************************************************************)
C8_DefaultCaseWithURLPasses ==
    (tcs = <<CaseURLOnly>> /\ h = "hiHandler") =>
        /\ calls = <<>>
        /\ Ended => pc = "done"
        /\ pc \in {"assert", "ret", "done"} => (rec.Code = 200 /\ rec.Body = "hi")

C8_Witness ==
    /\ tcs = <<CaseURLOnly>>
    /\ h = "hiHandler"
    /\ pc = "done"
    /\ rec.Code = 200
    /\ rec.Body = "hi"
    /\ Len(trace) = 4
    /\ calls = <<>>

(***************************************************************************)
(* C9 as stated.  When the build of a case's request fails on its URL, the *)
(* handler is not invoked for that case, a failure is reported for that    *)
(* case on its reporter, and Run goes on with the remaining cases.         *)
(***************************************************************************)
URLUnparsable(c) == tcs[c].Request.URL \in {URLEmpty, URLSpace}

C9_BuildErrorReportedPerCase ==
    \A c \in 1..Len(tcs) :
        (URLUnparsable(c) /\ BuildOver(c)) =>
            /\ StepsOf(c, "ServeHTTP") = {}
            /\ FailuresOf(c) # {}
            /\ pc # "panicked"

(***************************************************************************)
(* C9, amended.  When the build of a case's request fails on its URL,      *)
(* httptest.NewRequest panics: the handler is not invoked for that case,   *)
(* nothing is reported through the reporter for it, and the panic leaves   *)
(* Run, so that no later case is executed.                                 *)
(***************************************************************************)
C9_BuildErrorPanics ==
    \A c \in 1..Len(tcs) :
        (URLUnparsable(c) /\ BuildOver(c)) =>
            /\ pc = "panicked"
            /\ i = c
            /\ StepsOf(c, "httpRequest") = {}
            /\ StepsOf(c, "ServeHTTP") = {}
            /\ FailuresOf(c) = {}
            /\ \A p \in 1..Len(trace) : trace[p].case <= c
            /\ \A k \in 1..Len(calls) : calls[k].case <= c

C9_Witness ==
    /\ pc = "panicked"
    /\ Len(tcs) = 2
    /\ i = 1
    /\ tcs[1].Request = ReqBadURL
    /\ tcs[2].Request = ReqURLOnly
    /\ calls = <<>>

(***************************************************************************)
(* C10.  When a case whose Request.Headers holds a string without ": " is  *)
(* built, the run ends there (os.Exit, or the panic of NewRequest when the *)
(* URL does not parse either): the handler is not invoked for that case,   *)
(* no Errorf or Fatalf is made for it, no later case is executed, named or *)
(* not, and every earlier case whose function was run was executed in full.*)
(***************************************************************************)
HasBadHeader(c) ==
    \E k \in 1..Len(tcs[c].Request.Headers) :
        Index(tcs[c].Request.Headers[k], <<":", " ">>) = 0

C10_BadHeaderEndsProcess ==
    \A c \in 1..Len(tcs) :
        (HasBadHeader(c) /\ BuildOver(c)) =>
            /\ i = c
            /\ pc = IF URLUnparsable(c) THEN "panicked" ELSE "exited"
            /\ StepsOf(c, "httpRequest") = {}
            /\ StepsOf(c, "ServeHTTP") = {}
            /\ FailuresOf(c) = {}
            /\ \A p \in 1..Len(trace) : trace[p].case <= c
            /\ \A k \in 1..Len(calls) : calls[k].case <= c
            /\ \A d \in 1..(c - 1) :
                 RunsBody(d) => \A n \in 1..4 : StepsOf(d, StepNames[n]) # {}

C10_Witness ==
    /\ pc = "exited"
    /\ Len(tcs) = 2
    /\ i = 2
    /\ tcs[2].Name = "bad"
    /\ tcs[2].Request = ReqBadHeader
    /\ ReportsOf(1, "code") # {}
    /\ StepsOf(1, "assertResponse") # {}
    /\ Len(trace) = 5

====
